---- MODULE Spec2Model ----
(***************************************************************************)
(* The test-harness builder of src/test/framework.rs                        *)
(* (GenericTestFramework) as a state machine.  The builder is a value that  *)
(* every configuration call consumes and returns; the variable `framework`  *)
(* is the value the test currently owns.  A panic ends the run              *)
(* (pc = "panicked"); a terminal call hands the configuration to            *)
(* AggregateTestExecutor::new (pc = "done").                                *)
(***************************************************************************)
EXTENDS Integers, Sequences, FiniteSets, TLC

VARIABLES
    framework,   \* the GenericTestFramework value currently owned by the test
    executor,    \* the AggregateTestExecutor built by a terminal call
    pc,          \* "building" | "panicked" | "done" | "ran"
    call,        \* history: the last call made and its arguments
    prev,        \* history: the framework value the last call consumed
    service0,    \* history: the service passed to with
    queryLog,    \* history: the arguments of every and_query call, in order
    reactorLog,  \* history: the arguments of every and_reactor call, in order
    outcome,     \* the result of the test step run on the executor
    pairLog      \* history: the pair supplied to the last binding that returned

vars == <<framework, executor, pc, call, prev, service0, queryLog, reactorLog,
          outcome, pairLog>>

-----------------------------------------------------------------------------
(* Bounds of the model *)

MaxQueries == 3
MaxReactors == 2
MaxBatch == 2
MaxEvents == 2

(* Input domains *)

Services == {"serviceX", "serviceY"}
Queries == {"Q1", "Q2"}
Events == {"EventA", "EventB"}

\* The type parameter AC of the framework: the default MemStoreAggregateContext
\* or some other AggregateContext implementation.
MemAC == "MemStoreAggregateContext"
OtherAC == "OtherContext"

Contexts == {"MemStoreAggregateContext::default", "mem_context_b", "other_context"}
Stores == {"MemStore::default", "mem_store_b", "other_store"}

\* The concrete type of a context value.
ContextType(context) == IF context = "other_context" THEN OtherAC ELSE MemAC

\* EventStore<A, AC = ..>: the context type a store is declared for.
StoreAC(store) == IF store = "other_store" THEN OtherAC ELSE MemAC

\* Box<dyn Reactor<A, AC>>: the context type a reactor is written against.
Reactors == {"R1", "R2", "RO"}
ReactorAC(reactor) == IF reactor = "RO" THEN OtherAC ELSE MemAC

BoundedSeq(S, n) == UNION {[1..k -> S] : k \in 0..n}

\* Option<(AC, S)>
None == [some |-> FALSE]
Some(context, store) == [some |-> TRUE, context |-> context, store |-> store]

\* The outcome of a call that panicked instead of returning.
Panic == [panic |-> "reactors must be added after context and store defined"]

NoExecutor == [built |-> FALSE]

NoResult == [ran |-> FALSE]

\* Result<_, A::Error>
Ok(value) == [ok |-> TRUE, value |-> value]
Err(error) == [ok |-> FALSE, error |-> error]

\* Commands of the aggregate under test: one that emits EventB and one that
\* the aggregate rejects.
Commands == {"emit_EventB", "rejected"}

\* Reactor implementations whose react returns an error.
FailingReactors == {"R2"}

-----------------------------------------------------------------------------
(* The builder's functions, framework.rs *)

\* Mutant: the constructor binds the default store eagerly.
with_binds_mem_store(service) ==
    [service |-> service, queries |-> <<>>, reactors |-> <<>>,
     context_store |-> Some("MemStoreAggregateContext::default", "MemStore::default"),
     AC |-> MemAC]

\* Mutant: the constructor ignores its argument and uses a fixed service.
with_fixed_service(service) ==
    [service |-> "serviceX", queries |-> <<>>, reactors |-> <<>>,
     context_store |-> None, AC |-> MemAC]

\* GenericTestFramework::with
with(service) ==
    [service |-> service,
     queries |-> <<>>,
     reactors |-> <<>>,
     context_store |-> None,
     AC |-> MemAC]

\* Mutant: the reactor check is missing; the old reactors are silently dropped.
using_context_and_store_no_check(self, context, store) ==
    [service |-> self.service, queries |-> self.queries, reactors |-> <<>>,
     context_store |-> Some(context, store), AC |-> ContextType(context)]

\* Mutant: the queries are rebuilt with Vec::default() like the reactors.
using_context_and_store_resets_queries(self, context, store) ==
    IF self.reactors # <<>>
    THEN Panic
    ELSE [service |-> self.service, queries |-> <<>>, reactors |-> <<>>,
          context_store |-> Some(context, store), AC |-> ContextType(context)]

\* Mutant: the reactor check is missing and the reactors are carried over to
\* the new pair.
using_context_and_store_keeps_reactors(self, context, store) ==
    [service |-> self.service, queries |-> self.queries, reactors |-> self.reactors,
     context_store |-> Some(context, store), AC |-> ContextType(context)]

\* Mutant: a pair that is already bound is kept; only the first binding counts.
using_context_and_store_keeps_first_pair(self, context, store) ==
    IF self.reactors # <<>>
    THEN Panic
    ELSE [service |-> self.service, queries |-> self.queries, reactors |-> <<>>,
          context_store |-> IF self.context_store = None
                            THEN Some(context, store)
                            ELSE self.context_store,
          AC |-> ContextType(context)]

\* GenericTestFramework::using_context_and_store
using_context_and_store(self, context, store) ==
    IF self.reactors # <<>>
    THEN Panic
    ELSE [service |-> self.service,
          queries |-> self.queries,
          reactors |-> <<>>,
          context_store |-> Some(context, store),
          AC |-> ContextType(context)]

\* Mutant: the default pair is bound directly, without going through the
\* reactor check of using_context_and_store.
using_mem_store_unchecked(self) ==
    [self EXCEPT !.context_store =
        Some("MemStoreAggregateContext::default", "MemStore::default")]

\* GenericTestFramework::using_mem_store
using_mem_store(self) ==
    using_context_and_store(self, "MemStoreAggregateContext::default", "MemStore::default")

\* Mutant: the query is inserted at the front.
and_query_prepends(self, query) ==
    [self EXCEPT !.queries = <<query>> \o @]

\* GenericTestFramework::and_query
and_query(self, query) ==
    [self EXCEPT !.queries = Append(@, query)]

\* Mutant: the fold starts after the first element.
and_queries_skips_first(self, queries) ==
    IF queries = <<>>
    THEN self
    ELSE [self EXCEPT !.queries = @ \o Tail(queries)]

RECURSIVE and_queries(_, _)
\* GenericTestFramework::and_queries
and_queries(self, queries) ==
    IF queries = <<>>
    THEN self
    ELSE and_queries(and_query(self, Head(queries)), Tail(queries))

\* Mutant: the reactor replaces the list instead of being pushed.
and_reactor_replaces(self, reactor) ==
    [self EXCEPT !.reactors = <<reactor>>]

\* Mutant: a reactor added before any store binding locks in the default pair.
and_reactor_binds_mem_store(self, reactor) ==
    [self EXCEPT !.reactors = Append(@, reactor),
                 !.context_store =
                     IF @ = None
                     THEN Some("MemStoreAggregateContext::default", "MemStore::default")
                     ELSE @]

\* GenericTestFramework::and_reactor
and_reactor(self, reactor) ==
    [self EXCEPT !.reactors = Append(@, reactor)]

RECURSIVE and_reactors(_, _)
\* GenericTestFramework::and_reactors
and_reactors(self, reactors) ==
    IF reactors = <<>>
    THEN self
    ELSE and_reactors(and_reactor(self, Head(reactors)), Tail(reactors))

\* AggregateTestExecutor::new, as called by the terminal transitions: the
\* executor owns the four arguments it is constructed with.
AggregateTestExecutor_new(events, service, queries, context_store) ==
    [events |-> events,
     service |-> service,
     queries |-> queries,
     context_store |-> context_store]

\* Mutant: the store binding is not handed over.
given_no_previous_events_drops_store(self) ==
    AggregateTestExecutor_new(<<>>, self.service, self.queries, None)

\* GenericTestFramework::given_no_previous_events
given_no_previous_events(self) ==
    AggregateTestExecutor_new(<<>>, self.service, self.queries, self.context_store)

\* Mutant: the supplied history is replaced by Vec::new().
given_ignores_events(self, events) ==
    AggregateTestExecutor_new(<<>>, self.service, self.queries, self.context_store)

\* Mutant: a harness without a store binding gets the default pair on the way
\* to the executor.
given_defaults_store(self, events) ==
    AggregateTestExecutor_new(events, self.service, self.queries,
        IF self.context_store = None
        THEN Some("MemStoreAggregateContext::default", "MemStore::default")
        ELSE self.context_store)

\* GenericTestFramework::given
given(self, events) ==
    AggregateTestExecutor_new(events, self.service, self.queries, self.context_store)

-----------------------------------------------------------------------------
(* The dispatch contract, query.rs, and the test step of the executor *)

\* Reactor::react: the implementation returns follow-up events or an
\* aggregate-level error.
react(reactor, events) ==
    IF reactor \in FailingReactors
    THEN Err(<<"ReactorError", reactor>>)
    ELSE Ok(<<>>)

\* Aggregate command handling: the events of the step or a command failure.
handle(command) ==
    IF command = "rejected"
    THEN Err(<<"CommandError", command>>)
    ELSE Ok(<<"EventB">>)

\* The reactors an executor was constructed with.
executor_reactors(e) ==
    IF "reactors" \in DOMAIN e THEN e.reactors ELSE <<>>

RECURSIVE run_reactors(_, _)
\* The batch is presented to every reactor in registration order; the first
\* error ends the step.
run_reactors(reactors, events) ==
    IF reactors = <<>>
    THEN Ok(events)
    ELSE LET r == react(Head(reactors), events)
         IN IF r.ok THEN run_reactors(Tail(reactors), events) ELSE r

\* One test step: handle the command, then dispatch the committed events to
\* the executor's reactors; a failure of either kind is the step's result.
when(e, command) ==
    LET handled == handle(command)
    IN IF handled.ok
       THEN run_reactors(executor_reactors(e), handled.value)
       ELSE handled

-----------------------------------------------------------------------------
(* The state machine: one test building one harness *)

Init ==
    \E service \in Services :
        /\ framework = with(service)
        /\ executor = NoExecutor
        /\ pc = "building"
        /\ call = [op |-> "with", service |-> service]
        /\ prev = with(service)
        /\ service0 = service
        /\ queryLog = <<>>
        /\ reactorLog = <<>>
        /\ outcome = NoResult
        /\ pairLog = None

\* A call that returns a framework or panics.
Return(result) ==
    IF result = Panic
    THEN /\ pc' = "panicked"
         /\ UNCHANGED framework
    ELSE /\ pc' = "building"
         /\ framework' = result

\* using_context_and_store exists only on the default instantiation
\* GenericTestFramework<A, MemStoreAggregateContext<A>, MemStore<A>>, and its
\* arguments satisfy SO: EventStore<A, AC = ACO>.
UsingContextAndStore ==
    /\ pc = "building"
    /\ framework.AC = MemAC
    /\ \E context \in Contexts, store \in Stores :
        /\ StoreAC(store) = ContextType(context)
        /\ Return(using_context_and_store(framework, context, store))
        /\ call' = [op |-> "using_context_and_store", context |-> context, store |-> store]
        /\ pairLog' = IF using_context_and_store(framework, context, store) = Panic
                      THEN pairLog
                      ELSE Some(context, store)
    /\ prev' = framework
    /\ UNCHANGED <<executor, service0, queryLog, reactorLog, outcome>>

UsingMemStore ==
    /\ pc = "building"
    /\ framework.AC = MemAC
    /\ Return(using_mem_store(framework))
    /\ call' = [op |-> "using_mem_store"]
    /\ pairLog' = IF using_mem_store(framework) = Panic
                  THEN pairLog
                  ELSE Some("MemStoreAggregateContext::default", "MemStore::default")
    /\ prev' = framework
    /\ UNCHANGED <<executor, service0, queryLog, reactorLog, outcome>>

AndQuery ==
    /\ pc = "building"
    /\ Len(framework.queries) < MaxQueries
    /\ \E query \in Queries :
        /\ Return(and_query(framework, query))
        /\ call' = [op |-> "and_query", query |-> query]
        /\ queryLog' = Append(queryLog, query)
    /\ prev' = framework
    /\ UNCHANGED <<executor, service0, reactorLog, outcome, pairLog>>

AndQueries ==
    /\ pc = "building"
    /\ \E queries \in BoundedSeq(Queries, MaxBatch) :
        /\ Len(framework.queries) + Len(queries) <= MaxQueries
        /\ Return(and_queries(framework, queries))
        /\ call' = [op |-> "and_queries", queries |-> queries]
        /\ queryLog' = queryLog \o queries
    /\ prev' = framework
    /\ UNCHANGED <<executor, service0, reactorLog, outcome, pairLog>>

\* The reactor's context type is the framework's AC (Box<dyn Reactor<A, AC>>).
AndReactor ==
    /\ pc = "building"
    /\ Len(framework.reactors) < MaxReactors
    /\ \E reactor \in Reactors :
        /\ ReactorAC(reactor) = framework.AC
        /\ Return(and_reactor(framework, reactor))
        /\ call' = [op |-> "and_reactor", reactor |-> reactor]
        /\ reactorLog' = Append(reactorLog, reactor)
    /\ prev' = framework
    /\ UNCHANGED <<executor, service0, queryLog, outcome, pairLog>>

AndReactors ==
    /\ pc = "building"
    /\ \E reactors \in BoundedSeq(Reactors, MaxBatch) :
        /\ \A i \in 1..Len(reactors) : ReactorAC(reactors[i]) = framework.AC
        /\ Len(framework.reactors) + Len(reactors) <= MaxReactors
        /\ Return(and_reactors(framework, reactors))
        /\ call' = [op |-> "and_reactors", reactors |-> reactors]
        /\ reactorLog' = reactorLog \o reactors
    /\ prev' = framework
    /\ UNCHANGED <<executor, service0, queryLog, outcome, pairLog>>

GivenNoPreviousEvents ==
    /\ pc = "building"
    /\ executor' = given_no_previous_events(framework)
    /\ pc' = "done"
    /\ call' = [op |-> "given_no_previous_events"]
    /\ prev' = framework
    /\ UNCHANGED <<framework, service0, queryLog, reactorLog, outcome, pairLog>>

Given ==
    /\ pc = "building"
    /\ \E events \in BoundedSeq(Events, MaxEvents) :
        /\ executor' = given(framework, events)
        /\ call' = [op |-> "given", events |-> events]
    /\ pc' = "done"
    /\ prev' = framework
    /\ UNCHANGED <<framework, service0, queryLog, reactorLog, outcome, pairLog>>

When ==
    /\ pc = "done"
    /\ \E command \in Commands :
        /\ outcome' = when(executor, command)
        /\ call' = [op |-> "when", command |-> command]
    /\ pc' = "ran"
    /\ UNCHANGED <<framework, executor, prev, service0, queryLog, reactorLog, pairLog>>

Next ==
    \/ UsingContextAndStore
    \/ UsingMemStore
    \/ AndQuery
    \/ AndQueries
    \/ AndReactor
    \/ AndReactors
    \/ GivenNoPreviousEvents
    \/ Given
    \/ When

Spec == Init /\ [][Next]_vars

-----------------------------------------------------------------------------
(* Properties *)

\* C1: whenever using_context_and_store is called on a harness that holds at
\* least one reactor, the call panics and no harness is returned, whatever
\* queries or store binding the harness had.
C1_RebindWithReactorsPanics ==
    (call.op = "using_context_and_store" /\ prev.reactors # <<>>)
        => pc = "panicked"

\* C1 witness: the call was made on a store-bound harness with queries and a
\* reactor, and it panicked.
C1_Witness ==
    /\ call.op = "using_context_and_store"
    /\ prev.reactors # <<>>
    /\ prev.queries # <<>>
    /\ prev.context_store # None
    /\ pc = "panicked"

\* C2: whenever using_context_and_store is called on a harness with zero
\* reactors it returns a harness, and that harness's query list is the
\* original query list in the same order.
C2_RebindKeepsQueries ==
    (call.op = "using_context_and_store" /\ prev.reactors = <<>>)
        => /\ pc = "building"
           /\ framework.queries = prev.queries

\* C2 witness: the call succeeded on a harness holding two different queries.
C2_Witness ==
    /\ call.op = "using_context_and_store"
    /\ prev.reactors = <<>>
    /\ Len(prev.queries) >= 2
    /\ prev.queries[1] # prev.queries[2]
    /\ pc = "building"
    /\ framework.context_store # None

\* C3 (as claimed): in every reachable builder state a non-empty reactor list
\* implies that a (context, store) pair is bound.
C3_ReactorsImplyStore ==
    framework.reactors # <<>> => framework.context_store # None

\* C4 (as claimed): the executor produced by a terminal transition holds the
\* registered reactors [r1, ..., rn] in registration order.
C4_ExecutorHoldsReactors ==
    (pc = "done" /\ reactorLog # <<>>)
        => /\ "reactors" \in DOMAIN executor
           /\ executor.reactors = reactorLog

\* C5: the harness's query list is the sequence of and_query arguments in call
\* order (duplicates kept, nothing reordered) whatever other calls were
\* interleaved, and and_query never panics.
C5_QueriesInCallOrder ==
    /\ framework.queries = queryLog
    /\ call.op = "and_query" => pc = "building"

\* C5 witness: three and_query calls with a duplicate, the last one made on a
\* store-bound harness.
C5_Witness ==
    /\ call.op = "and_query"
    /\ pc = "building"
    /\ framework.context_store # None
    /\ Len(queryLog) >= 3
    /\ queryLog[1] = queryLog[3]
    /\ queryLog[1] # queryLog[2]

\* C6: the harness's reactor list is the sequence of and_reactor arguments in
\* call order; no later and_query call drops, duplicates or reorders one.
C6_ReactorsInCallOrder ==
    framework.reactors = reactorLog

\* C6 witness: two different reactors were registered and and_query was
\* called afterwards.
C6_Witness ==
    /\ call.op = "and_query"
    /\ Len(reactorLog) >= 2
    /\ reactorLog[1] # reactorLog[2]
    /\ prev.reactors = reactorLog

\* C7: given(events) produces an executor whose seeded history is the
\* supplied sequence, in every harness state.
C7_GivenSeedsHistory ==
    call.op = "given"
        => /\ pc = "done"
           /\ executor.events = call.events

\* C7 witness: given was called with two different events on a harness with
\* queries, reactors and a store.
C7_Witness ==
    /\ call.op = "given"
    /\ Len(call.events) >= 2
    /\ call.events[1] # call.events[2]
    /\ prev.queries # <<>>
    /\ prev.reactors # <<>>
    /\ prev.context_store # None
    /\ pc = "done"

\* C8: given_no_previous_events produces an executor whose seeded history is
\* empty, and that executor is the one given produces for the empty sequence.
C8_NoPreviousEventsIsEmptyGiven ==
    call.op = "given_no_previous_events"
        => /\ pc = "done"
           /\ executor.events = <<>>
           /\ executor = given(prev, <<>>)

\* C8 witness: given_no_previous_events was called on a store-bound harness
\* with queries.
C8_Witness ==
    /\ call.op = "given_no_previous_events"
    /\ prev.context_store # None
    /\ prev.queries # <<>>
    /\ pc = "done"

\* C9: the harness always holds the service passed to with, and a terminal
\* transition gives that service to the executor.
C9_ServiceImmutable ==
    /\ framework.service = service0
    /\ pc = "done" => executor.service = service0

\* C9 witness: an executor was built after a store binding, queries and
\* reactors, for a service that is not the first of the domain.
C9_Witness ==
    /\ pc = "done"
    /\ service0 = "serviceY"
    /\ framework.context_store # None
    /\ framework.queries # <<>>
    /\ framework.reactors # <<>>

\* C10: with(service) yields the Initial state: the given service, no
\* queries, no reactors and no (context, store) pair.
C10_WithIsInitial ==
    call.op = "with"
        => /\ framework.service = call.service
           /\ framework.queries = <<>>
           /\ framework.reactors = <<>>
           /\ framework.context_store = None

\* C10 witness: the harness just returned by with(serviceY).
C10_Witness ==
    /\ call.op = "with"
    /\ call.service = "serviceY"
    /\ pc = "building"

FirstFailing(reactors) ==
    reactors[CHOOSE i \in DOMAIN reactors :
                /\ reactors[i] \in FailingReactors
                /\ \A j \in 1..(i - 1) : reactors[j] \notin FailingReactors]

\* C12 (as claimed): when a reactor registered on the harness returns an
\* error for the events of a test step, the step's result is that error.
C12_ReactorErrorIsStepResult ==
    (/\ call.op = "when"
     /\ handle(call.command).ok
     /\ framework.context_store # None
     /\ \E i \in DOMAIN framework.reactors : framework.reactors[i] \in FailingReactors)
        => outcome = react(FirstFailing(framework.reactors), handle(call.command).value)

\* C13: once the reactor list is non-empty no step changes the harness's
\* (context, store) pair, and a terminal transition hands that same pair to
\* the executor; a harness that received a reactor while no store was bound
\* never becomes store-bound.
C13_PairFixedOnceReactorsExist ==
    [][framework.reactors # <<>>
         => /\ framework'.context_store = framework.context_store
            /\ framework'.reactors # <<>>
            /\ pc' = "done" => executor'.context_store = framework.context_store]_vars

\* C13 witness: a harness with a bound pair and a reactor refused a rebinding
\* and still holds the pair it had.
C13_Witness ==
    /\ call.op = "using_context_and_store"
    /\ pc = "panicked"
    /\ prev.reactors # <<>>
    /\ prev.context_store # None
    /\ prev.context_store # Some(call.context, call.store)
    /\ framework.context_store = prev.context_store

\* C14: using_mem_store behaves as using_context_and_store called with the
\* default in-memory context and store: with zero reactors it returns a
\* harness bound to that default pair with the same service and query list
\* (and no reactors), with at least one reactor it panics.
C14_MemStoreIsDefaultPair ==
    call.op = "using_mem_store"
        => IF prev.reactors = <<>>
           THEN /\ pc = "building"
                /\ framework.context_store =
                       Some("MemStoreAggregateContext::default", "MemStore::default")
                /\ framework.service = prev.service
                /\ framework.queries = prev.queries
                /\ framework.reactors = <<>>
                /\ framework.AC = MemAC
           ELSE /\ pc = "panicked"
                /\ using_context_and_store(prev,
                       "MemStoreAggregateContext::default", "MemStore::default") = Panic

\* C14 witness: using_mem_store returned on a harness that held queries and
\* another pair.
C14_Witness ==
    /\ call.op = "using_mem_store"
    /\ pc = "building"
    /\ prev.queries # <<>>
    /\ prev.context_store # None
    /\ prev.context_store # framework.context_store

RECURSIVE AndQueryEach(_, _)
\* and_query(q1) ... and_query(qn) applied to a harness one call after the
\* other: the last call is applied to the result of all the earlier ones.
AndQueryEach(self, qs) ==
    IF qs = <<>>
    THEN self
    ELSE and_query(AndQueryEach(self, SubSeq(qs, 1, Len(qs) - 1)), qs[Len(qs)])

RECURSIVE AndReactorEach(_, _)
\* and_reactor(r1) ... and_reactor(rn) applied one call after the other.
AndReactorEach(self, rs) ==
    IF rs = <<>>
    THEN self
    ELSE and_reactor(AndReactorEach(self, SubSeq(rs, 1, Len(rs) - 1)), rs[Len(rs)])

\* C15: and_queries([q1..qn]) yields the harness that and_query(q1) ...
\* and_query(qn) yield, and_reactors([r1..rn]) the harness that
\* and_reactor(r1) ... and_reactor(rn) yield; with an empty list either bulk
\* call returns the harness unchanged.
C15_BulkIsRepeatedSingle ==
    /\ call.op = "and_queries"
        => /\ pc = "building"
           /\ framework = AndQueryEach(prev, call.queries)
           /\ framework.queries = prev.queries \o call.queries
           /\ call.queries = <<>> => framework = prev
    /\ call.op = "and_reactors"
        => /\ pc = "building"
           /\ framework = AndReactorEach(prev, call.reactors)
           /\ framework.reactors = prev.reactors \o call.reactors
           /\ call.reactors = <<>> => framework = prev

\* C15 witness: and_queries was called with two different queries on a
\* harness that already held a query and a reactor.
C15_Witness ==
    /\ call.op = "and_queries"
    /\ Len(call.queries) >= 2
    /\ call.queries[1] # call.queries[2]
    /\ prev.queries # <<>>
    /\ prev.reactors # <<>>
    /\ pc = "building"

\* C16: and_query changes only the query list and and_reactor only the
\* reactor list: each leaves the service, the other list and the
\* (context, store) pair as they were.
C16_SingleAddFrame ==
    /\ call.op = "and_query"
        => /\ framework.queries # prev.queries
           /\ framework.service = prev.service
           /\ framework.reactors = prev.reactors
           /\ framework.context_store = prev.context_store
           /\ framework.AC = prev.AC
    /\ call.op = "and_reactor"
        => /\ framework.reactors # prev.reactors
           /\ framework.service = prev.service
           /\ framework.queries = prev.queries
           /\ framework.context_store = prev.context_store
           /\ framework.AC = prev.AC

\* C16 witness: and_reactor was called on the Initial state after a query was
\* added; the harness still has the query and still has no pair.
C16_Witness ==
    /\ call.op = "and_reactor"
    /\ prev.queries # <<>>
    /\ prev.context_store = None
    /\ framework.reactors = <<call.reactor>>
    /\ framework.service = "serviceY"

\* C17: a store binding that returns leaves the harness holding exactly the
\* pair just supplied and an empty reactor list, also when a pair was bound
\* before; the pair of the newest binding is the one the harness keeps and the
\* one the executor receives.
C17_NewestPairWins ==
    /\ (call.op = "using_context_and_store" /\ pc = "building")
        => /\ framework.context_store = Some(call.context, call.store)
           /\ framework.reactors = <<>>
    /\ (call.op = "using_mem_store" /\ pc = "building")
        => /\ framework.context_store =
                  Some("MemStoreAggregateContext::default", "MemStore::default")
           /\ framework.reactors = <<>>
    /\ framework.context_store = pairLog
    /\ pc \in {"done", "ran"} => executor.context_store = pairLog

\* C17 witness: using_context_and_store returned on a harness that already
\* held a different pair; the harness now holds the new one.
C17_Witness ==
    /\ call.op = "using_context_and_store"
    /\ pc = "building"
    /\ prev.context_store # None
    /\ prev.context_store # Some(call.context, call.store)
    /\ framework.context_store = Some(call.context, call.store)

====
